---- MODULE Spec2Model ----
(***************************************************************************)
(* Booking / availability engine of HotelManager (src/main.py).            *)
(*                                                                         *)
(* The SQLite tables are the state: rooms, customers and bookings;         *)
(* `pending` holds the add_booking calls that have passed the availability *)
(* check and not yet run their INSERT (empty when callers take turns).     *)
(* Every public method of HotelManager that the claims speak about is one  *)
(* action.  What a method returns, and the tables it leaves, are operators *)
(* on the state the call starts in (X_returns, X_store); the action X      *)
(* moves the state to X_store.                                             *)
(*                                                                         *)
(* Dates are datetime.date values, modelled as the day of the year 2024    *)
(* (1 = 2024-01-01, 32 = 2024-02-01).  The bookings table stores them as   *)
(* TEXT in ISO format and SQLite compares them as text, so the model keeps *)
(* the stored value as the sequence of character codes of 'YYYY-MM-DD' and *)
(* compares byte by byte, as the BINARY collation does.                    *)
(***************************************************************************)
EXTENDS Integers, Sequences, FiniteSets, TLC

VARIABLES rooms, customers, bookings, pending

vars == <<rooms, customers, bookings, pending>>

(***************************************************************************)
(* Bounds of the model.                                                    *)
(***************************************************************************)
\* first day (of 2024) the callers may pick; 30 = 2024-01-30
FirstDay == 30
\* number of consecutive days the callers may pick
NumDays == 3

(***************************************************************************)
(* Program constants.                                                      *)
(***************************************************************************)
\* random.randint(50000, 99999): the smallest booking id
MinBookingId == 50000
\* random.randint(1000, 9999): the smallest customer id
MinCustomerId == 1000
\* booking_id_to_ignore=None
NoBookingId == 0
\* get_room_price: room['price'] if room else 0
NoRoomPrice == 0
\* days of January, the month the window starts in
DaysInJanuary == 31

Dates == FirstDay .. (FirstDay + NumDays - 1)

\* the (check-in, check-out) pairs the callers pass: every range with
\* check-in before check-out, one empty range and one reversed range
DateRanges ==
    {rg \in Dates \X Dates : rg[1] < rg[2]}
        \cup {<<FirstDay, FirstDay>>, <<FirstDay + 1, FirstDay>>}

\* the values _generate_id('B') may return: two of B50000..B99999 (the prefix
\* 'B' is left out), so that the table holds at most two bookings
BookingIds == {MinBookingId, MinBookingId + 1}

\* the values _generate_id('C') may return (the prefix 'C' is left out)
CustomerIds == {MinCustomerId}

\* rooms loaded by _load_sample_data (two of 101..110)
SampleRooms == {"101", "102"}
\* a room number that is in no row of the rooms table
MissingRoom == "999"
RoomInputs == SampleRooms \cup {MissingRoom}

RoomTypes == {"Standard", "Deluxe"}
\* the types random.choice gives the sample rooms
SampleTypes == {"Standard"}
Prices == {100, 150}
RoomStatuses == {"Available", "Occupied", "Maintenance"}
BookingStatuses == {"Confirmed", "CheckedIn", "CheckedOut", "Cancelled"}
ActiveStatuses == {"Confirmed", "CheckedIn"}
\* the browser sessions: each has its own HotelManager and connection
Sessions == {"s1", "s2"}

(***************************************************************************)
(* datetime.date.isoformat, strptime and SQLite's text comparison.         *)
(***************************************************************************)
Month(d) == IF d <= DaysInJanuary THEN 1 ELSE 2
DayOfMonth(d) == IF d <= DaysInJanuary THEN d ELSE d - DaysInJanuary

\* character code of a decimal digit
Digit(n) == 48 + n

\* date.isoformat(): 'YYYY-MM-DD', zero padded; 45 is '-'
isoformat_text(d) ==
    << Digit(2), Digit(0), Digit(2), Digit(4), 45,
       Digit(Month(d) \div 10), Digit(Month(d) % 10), 45,
       Digit(DayOfMonth(d) \div 10), Digit(DayOfMonth(d) % 10) >>

\* the ISO text of every date the callers may pick, computed once
isoformat_table == [d \in Dates |-> isoformat_text(d)]

isoformat(d) == isoformat_table[d]

\* datetime.strptime(s, '%Y-%m-%d').date(), as a day of 2024
strptime(s) ==
    LET month == (s[6] - 48) * 10 + (s[7] - 48)
        day == (s[9] - 48) * 10 + (s[10] - 48)
    IN  (IF month = 1 THEN 0 ELSE DaysInJanuary) + day

\* a < b for two TEXT values under the BINARY collation (memcmp, then length)
TextLess(a, b) ==
    LET n == IF Len(a) < Len(b) THEN Len(a) ELSE Len(b)
        diff == {i \in 1 .. n : a[i] # b[i]}
    IN  IF diff = {}
        THEN Len(a) < Len(b)
        ELSE LET first == CHOOSE i \in diff : \A j \in diff : i <= j
             IN  a[first] < b[first]

(***************************************************************************)
(* Store accessors.                                                        *)
(***************************************************************************)
\* get_room_by_number(room_number) is not None
room_exists(room_number) == room_number \in DOMAIN rooms

\* get_room_price
get_room_price(room_number) ==
    IF room_exists(room_number) THEN rooms[room_number].price ELSE NoRoomPrice

\* get_booking_by_id(booking_id) is not None
booking_exists(booking_id) == booking_id \in DOMAIN bookings

\* UPDATE rooms SET status = ? WHERE room_number = ?, on the table rms
update_room_status(rms, room_number, status) ==
    [r \in DOMAIN rms |->
        IF r = room_number THEN [rms[r] EXCEPT !.status = status] ELSE rms[r]]

\* the WHERE clause with status = 'Confirmed' in place of the IN list
overlaps_confirmed_only(bks, b, room_number, new_check_in, new_check_out, booking_id_to_ignore) ==
    /\ bks[b].room_number = room_number
    /\ bks[b].status = "Confirmed"
    /\ TextLess(new_check_in, bks[b].check_out_date)
    /\ TextLess(bks[b].check_in_date, new_check_out)
    /\ (booking_id_to_ignore # NoBookingId => b # booking_id_to_ignore)

\* the WHERE clause with >= and <= in place of > and <
overlaps_inclusive(bks, b, room_number, new_check_in, new_check_out, booking_id_to_ignore) ==
    /\ bks[b].room_number = room_number
    /\ bks[b].status \in {"Confirmed", "CheckedIn"}
    /\ ~TextLess(bks[b].check_out_date, new_check_in)
    /\ ~TextLess(new_check_out, bks[b].check_in_date)
    /\ (booking_id_to_ignore # NoBookingId => b # booking_id_to_ignore)

\* the WHERE clause without AND booking_id != ?
overlaps_without_ignore(bks, b, room_number, new_check_in, new_check_out, booking_id_to_ignore) ==
    /\ bks[b].room_number = room_number
    /\ bks[b].status \in {"Confirmed", "CheckedIn"}
    /\ TextLess(new_check_in, bks[b].check_out_date)
    /\ TextLess(bks[b].check_in_date, new_check_out)

\* the WHERE clause for one row b of the table bks
overlaps(bks, b, room_number, new_check_in, new_check_out, booking_id_to_ignore) ==
    /\ bks[b].room_number = room_number
    /\ bks[b].status \in {"Confirmed", "CheckedIn"}
    /\ TextLess(new_check_in, bks[b].check_out_date)
    /\ TextLess(bks[b].check_in_date, new_check_out)
    /\ (booking_id_to_ignore # NoBookingId => b # booking_id_to_ignore)

\* is_room_available on the table bks: the SELECT COUNT is 0
available_in(bks, room_number, new_check_in, new_check_out, booking_id_to_ignore) ==
    Cardinality({b \in DOMAIN bks :
        overlaps(bks, b, room_number, new_check_in, new_check_out,
                 booking_id_to_ignore)}) = 0

is_room_available(room_number, new_check_in, new_check_out, booking_id_to_ignore) ==
    available_in(bookings, room_number, new_check_in, new_check_out,
                 booking_id_to_ignore)

\* room_types of _load_sample_data: the rate that goes with each type
room_types == [Standard |-> 100, Deluxe |-> 150]

(***************************************************************************)
(* Initial state: HotelManager.__init__ on a new database file.            *)
(* _load_sample_data gives each room a type and that type's rate; the      *)
(* customers and bookings tables start empty.                              *)
(***************************************************************************)
Init ==
    /\ \E t \in [SampleRooms -> SampleTypes] :
          rooms = [r \in SampleRooms |->
                      [type |-> t[r], price |-> room_types[t[r]],
                       status |-> "Available"]]
    /\ customers = [c \in {} |-> << >>]
    /\ bookings = [b \in {} |-> << >>]
    /\ pending = [s \in {} |-> << >>]

\* the rooms and bookings tables as they are
Store == [rooms |-> rooms, bookings |-> bookings]

(***************************************************************************)
(* add_booking                                                             *)
(***************************************************************************)
\* add_booking with the availability looked up before the dates are compared
add_booking_check_availability_first(room_number, check_in_date, check_out_date) ==
    IF ~is_room_available(room_number, isoformat(check_in_date),
                          isoformat(check_out_date), NoBookingId)
    THEN "Room is already booked or occupied during this period."
    ELSE IF check_in_date >= check_out_date
    THEN "Check-out date must be after check-in date."
    ELSE IF ~room_exists(room_number)
    THEN "Room not found."
    ELSE "pass"

\* lines 170-178: the message of the first early return taken, or "pass"
add_booking_check(room_number, check_in_date, check_out_date) ==
    IF check_in_date >= check_out_date
    THEN "Check-out date must be after check-in date."
    ELSE IF ~room_exists(room_number)
    THEN "Room not found."
    ELSE IF ~is_room_available(room_number, isoformat(check_in_date),
                               isoformat(check_out_date), NoBookingId)
    THEN "Room is already booked or occupied during this period."
    ELSE "pass"

\* what add_booking returns when _generate_id('B') returns booking_id:
\* (False, message), (True, "Booking ... confirmed.") or, because booking_id is
\* the PRIMARY KEY of the table, sqlite3.IntegrityError raised by the INSERT
add_booking_returns(room_number, check_in_date, check_out_date, booking_id) ==
    IF add_booking_check(room_number, check_in_date, check_out_date) # "pass"
    THEN [ok |-> FALSE,
          msg |-> add_booking_check(room_number, check_in_date, check_out_date)]
    ELSE IF booking_exists(booking_id)
    THEN [ok |-> FALSE, msg |-> "IntegrityError"]
    ELSE [ok |-> TRUE, msg |-> "confirmed"]

\* the row written by INSERT INTO bookings (status defaults to 'Confirmed')
new_booking(customer_id, room_number, check_in_date, check_out_date) ==
    [customer_id |-> customer_id,
     room_number |-> room_number,
     check_in_date |-> isoformat(check_in_date),
     check_out_date |-> isoformat(check_out_date),
     status |-> "Confirmed",
     price_per_night |-> get_room_price(room_number)]

\* lines 180-186: the bookings table after INSERT INTO bookings and commit; an
\* INSERT that raises IntegrityError writes nothing
insert_booking(booking_id, customer_id, room_number, check_in_date, check_out_date) ==
    IF booking_exists(booking_id)
    THEN bookings
    ELSE [b \in DOMAIN bookings \cup {booking_id} |->
             IF b = booking_id
             THEN new_booking(customer_id, room_number, check_in_date, check_out_date)
             ELSE bookings[b]]

\* the tables add_booking leaves
add_booking_store(customer_id, room_number, check_in_date, check_out_date, booking_id) ==
    IF add_booking_check(room_number, check_in_date, check_out_date) # "pass"
    THEN Store
    ELSE [rooms |-> rooms,
          bookings |-> insert_booking(booking_id, customer_id, room_number,
                                      check_in_date, check_out_date)]

\* add_booking run by one caller from start to end
add_booking(customer_id, room_number, check_in_date, check_out_date, booking_id) ==
    /\ bookings' = add_booking_store(customer_id, room_number, check_in_date,
                                     check_out_date, booking_id).bookings
    /\ UNCHANGED <<rooms, customers, pending>>

(***************************************************************************)
(* update_booking                                                          *)
(***************************************************************************)
\* update_booking that refuses to edit a Cancelled or CheckedOut booking
update_booking_check_active_only(booking_id, new_room_number, new_check_in, new_check_out) ==
    IF ~booking_exists(booking_id)
    THEN "Booking not found."
    ELSE IF bookings[booking_id].status \notin ActiveStatuses
    THEN "Booking is closed."
    ELSE IF new_check_in >= new_check_out
    THEN "Check-out date must be after check-in date."
    ELSE IF ~is_room_available(new_room_number, isoformat(new_check_in),
                               isoformat(new_check_out), booking_id)
    THEN "Room is not available for the new dates/room."
    ELSE "pass"

\* update_booking with the dates compared before the booking is looked up
update_booking_check_dates_first(booking_id, new_room_number, new_check_in, new_check_out) ==
    IF new_check_in >= new_check_out
    THEN "Check-out date must be after check-in date."
    ELSE IF ~booking_exists(booking_id)
    THEN "Booking not found."
    ELSE IF ~is_room_available(new_room_number, isoformat(new_check_in),
                               isoformat(new_check_out), booking_id)
    THEN "Room is not available for the new dates/room."
    ELSE "pass"

\* update_booking without the comparison of the two dates
update_booking_check_without_dates(booking_id, new_room_number, new_check_in, new_check_out) ==
    IF ~booking_exists(booking_id)
    THEN "Booking not found."
    ELSE IF ~is_room_available(new_room_number, isoformat(new_check_in),
                               isoformat(new_check_out), booking_id)
    THEN "Room is not available for the new dates/room."
    ELSE "pass"

\* lines 222-232: the message of the first early return taken, or "pass"
update_booking_check(booking_id, new_room_number, new_check_in, new_check_out) ==
    IF ~booking_exists(booking_id)
    THEN "Booking not found."
    ELSE IF new_check_in >= new_check_out
    THEN "Check-out date must be after check-in date."
    ELSE IF ~is_room_available(new_room_number, isoformat(new_check_in),
                               isoformat(new_check_out), booking_id)
    THEN "Room is not available for the new dates/room."
    ELSE "pass"

\* what update_booking returns: (False, message) or (True, "... updated.")
update_booking_returns(booking_id, new_room_number, new_check_in, new_check_out) ==
    IF update_booking_check(booking_id, new_room_number, new_check_in,
                            new_check_out) # "pass"
    THEN [ok |-> FALSE,
          msg |-> update_booking_check(booking_id, new_room_number, new_check_in,
                                       new_check_out)]
    ELSE [ok |-> TRUE, msg |-> "updated"]

\* lines 238-239: a booking that was CheckedIn releases its old room
release_old_room(rms, old_room_number, old_status) ==
    IF old_status = "CheckedIn"
    THEN update_room_status(rms, old_room_number, "Available")
    ELSE rms

\* update_booking without the claim of the new room
claim_new_room_never(rms, new_room_number, new_status) == rms

\* lines 242-248: a booking that becomes CheckedIn claims the new room
claim_new_room(rms, new_room_number, new_status) ==
    IF new_status = "CheckedIn"
    THEN update_room_status(rms, new_room_number, "Occupied")
    ELSE rms

\* the UPDATE without price_per_night = ?
updated_booking_keeps_price(old, new_room_number, new_check_in, new_check_out, new_status) ==
    [old EXCEPT !.room_number = new_room_number,
                !.check_in_date = isoformat(new_check_in),
                !.check_out_date = isoformat(new_check_out),
                !.status = new_status]

\* lines 251-256: UPDATE bookings SET room_number, dates, status, price_per_night
updated_booking(old, new_room_number, new_check_in, new_check_out, new_status) ==
    [old EXCEPT !.room_number = new_room_number,
                !.check_in_date = isoformat(new_check_in),
                !.check_out_date = isoformat(new_check_out),
                !.status = new_status,
                !.price_per_night = get_room_price(new_room_number)]

\* update_booking with the release of the old room moved before the early returns
update_booking_store_release_first(booking_id, new_room_number, new_check_in, new_check_out, new_status) ==
    IF ~booking_exists(booking_id)
    THEN Store
    ELSE IF update_booking_check(booking_id, new_room_number, new_check_in,
                                 new_check_out) # "pass"
    THEN [rooms |-> release_old_room(rooms, bookings[booking_id].room_number,
                                     bookings[booking_id].status),
          bookings |-> bookings]
    ELSE [rooms |-> claim_new_room(
                        release_old_room(rooms, bookings[booking_id].room_number,
                                         bookings[booking_id].status),
                        new_room_number, new_status),
          bookings |-> [bookings EXCEPT ![booking_id] =
                           updated_booking(bookings[booking_id], new_room_number,
                                           new_check_in, new_check_out, new_status)]]

\* the tables update_booking leaves
update_booking_store(booking_id, new_room_number, new_check_in, new_check_out, new_status) ==
    IF update_booking_check(booking_id, new_room_number, new_check_in,
                            new_check_out) # "pass"
    THEN Store
    ELSE [rooms |-> claim_new_room(
                        release_old_room(rooms, bookings[booking_id].room_number,
                                         bookings[booking_id].status),
                        new_room_number, new_status),
          bookings |-> [bookings EXCEPT ![booking_id] =
                           updated_booking(bookings[booking_id], new_room_number,
                                           new_check_in, new_check_out, new_status)]]

update_booking(booking_id, new_room_number, new_check_in, new_check_out, new_status) ==
    LET after == update_booking_store(booking_id, new_room_number, new_check_in,
                                      new_check_out, new_status)
    IN  /\ rooms' = after.rooms
        /\ bookings' = after.bookings
        /\ UNCHANGED <<customers, pending>>

(***************************************************************************)
(* check_in / check_out / cancel_booking                                   *)
(***************************************************************************)
\* check_in without the test of the status
check_in_returns_any_status(booking_id) == booking_exists(booking_id)

\* booking and booking['status'] == 'Confirmed': what check_in returns
check_in_returns(booking_id) ==
    booking_exists(booking_id) /\ bookings[booking_id].status = "Confirmed"

\* booking and booking['status'] == 'CheckedIn': what check_out returns
check_out_returns(booking_id) ==
    booking_exists(booking_id) /\ bookings[booking_id].status = "CheckedIn"

\* cancel_booking that refuses only a booking that is CheckedIn
cancel_booking_returns_unless_checked_in(booking_id) ==
    booking_exists(booking_id) /\ bookings[booking_id].status # "CheckedIn"

\* booking and booking['status'] == 'Confirmed': what cancel_booking returns
cancel_booking_returns(booking_id) ==
    booking_exists(booking_id) /\ bookings[booking_id].status = "Confirmed"

\* the tables check_in leaves
check_in_store(booking_id) ==
    IF check_in_returns(booking_id)
    THEN [rooms |-> update_room_status(rooms, bookings[booking_id].room_number,
                                       "Occupied"),
          bookings |-> [bookings EXCEPT ![booking_id].status = "CheckedIn"]]
    ELSE Store

\* check_out without the call of update_room_status
check_out_store_keeps_room(booking_id) ==
    IF check_out_returns(booking_id)
    THEN [rooms |-> rooms,
          bookings |-> [bookings EXCEPT ![booking_id].status = "CheckedOut"]]
    ELSE Store

\* the tables check_out leaves
check_out_store(booking_id) ==
    IF check_out_returns(booking_id)
    THEN [rooms |-> update_room_status(rooms, bookings[booking_id].room_number,
                                       "Available"),
          bookings |-> [bookings EXCEPT ![booking_id].status = "CheckedOut"]]
    ELSE Store

\* cancel_booking that deletes the row in place of the UPDATE of its status
cancel_booking_store_deletes(booking_id) ==
    IF cancel_booking_returns(booking_id)
    THEN [rooms |-> rooms,
          bookings |-> [b \in DOMAIN bookings \ {booking_id} |-> bookings[b]]]
    ELSE Store

\* the tables cancel_booking leaves
cancel_booking_store(booking_id) ==
    IF cancel_booking_returns(booking_id)
    THEN [rooms |-> rooms,
          bookings |-> [bookings EXCEPT ![booking_id].status = "Cancelled"]]
    ELSE Store

check_in(booking_id) ==
    LET after == check_in_store(booking_id)
    IN  /\ rooms' = after.rooms
        /\ bookings' = after.bookings
        /\ UNCHANGED <<customers, pending>>

check_out(booking_id) ==
    LET after == check_out_store(booking_id)
    IN  /\ rooms' = after.rooms
        /\ bookings' = after.bookings
        /\ UNCHANGED <<customers, pending>>

cancel_booking(booking_id) ==
    /\ bookings' = cancel_booking_store(booking_id).bookings
    /\ UNCHANGED <<rooms, customers, pending>>

(***************************************************************************)
(* Room management                                                         *)
(***************************************************************************)
\* update_room_details that also rewrites the rate of the room's bookings
update_room_details_retroactive(room_number, new_type, new_price, new_status) ==
    /\ rooms' = [r \in DOMAIN rooms |->
                    IF r = room_number
                    THEN [type |-> new_type, price |-> new_price, status |-> new_status]
                    ELSE rooms[r]]
    /\ bookings' = [b \in DOMAIN bookings |->
                       IF bookings[b].room_number = room_number
                       THEN [bookings[b] EXCEPT !.price_per_night = new_price]
                       ELSE bookings[b]]
    /\ UNCHANGED <<customers, pending>>

\* UPDATE rooms SET type, price, status WHERE room_number = ?; returns True
update_room_details(room_number, new_type, new_price, new_status) ==
    /\ rooms' = [r \in DOMAIN rooms |->
                    IF r = room_number
                    THEN [type |-> new_type, price |-> new_price, status |-> new_status]
                    ELSE rooms[r]]
    /\ UNCHANGED <<customers, bookings, pending>>

(***************************************************************************)
(* get_available_rooms                                                     *)
(***************************************************************************)
\* the room numbers as SELECT * FROM rooms ORDER BY room_number lists them
SortedRoomNumbers == <<"101", "102">>

\* the loop body that keeps a room only when its status is 'Available'
room_listed_if_status_available(room_number, check_in_date, check_out_date) ==
    /\ rooms[room_number].status = "Available"
    /\ is_room_available(room_number, isoformat(check_in_date),
                         isoformat(check_out_date), NoBookingId)

\* lines 213-218: the room is appended unless it is in Maintenance
room_listed(room_number, check_in_date, check_out_date) ==
    IF rooms[room_number].status = "Maintenance"
    THEN FALSE
    ELSE is_room_available(room_number, isoformat(check_in_date),
                           isoformat(check_out_date), NoBookingId)

\* the for loop over self.rooms from the i-th room on
RECURSIVE scan_rooms(_, _, _)
scan_rooms(i, check_in_date, check_out_date) ==
    IF i > Len(SortedRoomNumbers)
    THEN << >>
    ELSE (IF room_listed(SortedRoomNumbers[i], check_in_date, check_out_date)
          THEN <<SortedRoomNumbers[i]>>
          ELSE << >>)
         \o scan_rooms(i + 1, check_in_date, check_out_date)

\* the list get_available_rooms returns (each room dict by its room_number)
get_available_rooms(check_in_date, check_out_date) ==
    scan_rooms(1, check_in_date, check_out_date)

(***************************************************************************)
(* The bookings listing and get_reports                                    *)
(***************************************************************************)
\* the bookings property: every row of the table, its two dates parsed back
\* with strptime (the rows are kept by booking_id, SELECT gives no order)
bookings_listing ==
    [b \in DOMAIN bookings |->
        [bookings[b] EXCEPT !.check_in_date = strptime(bookings[b].check_in_date),
                            !.check_out_date = strptime(bookings[b].check_out_date)]]

\* Python's max and min of two dates
max(a, b) == IF a >= b THEN a ELSE b

min(a, b) == IF a <= b THEN a ELSE b

\* the sum of f over the ids of S, as the loop of get_reports accumulates it
RECURSIVE sum_over(_, _)
sum_over(f, S) ==
    IF S = {} THEN 0
    ELSE LET b == CHOOSE x \in S : TRUE
         IN f[b] + sum_over(f, S \ {b})

\* the statuses whose nights get_reports counts as occupied
OccupyingStatuses == {"Confirmed", "CheckedIn", "CheckedOut"}

\* the bookings whose nights meet the window: start < end in the loop
report_rows(start_date, end_date) ==
    {b \in DOMAIN bookings_listing :
        max(bookings_listing[b].check_in_date, start_date)
            < min(bookings_listing[b].check_out_date, end_date)}

\* (end - start).days of booking b in the window
report_duration(b, start_date, end_date) ==
    min(bookings_listing[b].check_out_date, end_date)
        - max(bookings_listing[b].check_in_date, start_date)

\* get_reports.  occupancy_rate is the exact fraction <<numerator,
\* denominator>> of the float the code computes; 0.0 is <<0, 1>>.
get_reports(start_date, end_date) ==
    LET rows == report_rows(start_date, end_date)
        with_status(S) == {b \in rows : bookings_listing[b].status \in S}
        occupied_nights ==
            sum_over([b \in rows |-> report_duration(b, start_date, end_date)],
                     with_status(OccupyingStatuses))
        total_nights == Cardinality(DOMAIN rooms) * (end_date - start_date)
    IN [total_revenue |->
            sum_over([b \in rows |-> report_duration(b, start_date, end_date)
                                        * bookings_listing[b].price_per_night],
                     with_status({"CheckedOut"})),
        occupied_nights |-> occupied_nights,
        completed_bookings |-> Cardinality(with_status({"CheckedOut"})),
        cancelled_bookings |->
            Cardinality({b \in with_status({"Cancelled"}) :
                            /\ bookings_listing[b].check_in_date >= start_date
                            /\ bookings_listing[b].check_in_date <= end_date}),
        total_nights |-> total_nights,
        occupancy_rate |-> IF total_nights > 0
                           THEN <<occupied_nights * 100, total_nights>>
                           ELSE <<0, 1>>]

(***************************************************************************)
(* One caller at a time: every method runs from start to end.              *)
(***************************************************************************)
AddBooking ==
    \E c \in CustomerIds, r \in RoomInputs, rg \in DateRanges, id \in BookingIds :
        add_booking(c, r, rg[1], rg[2], id)

UpdateBooking ==
    \E id \in BookingIds, r \in SampleRooms, rg \in DateRanges,
       st \in BookingStatuses : update_booking(id, r, rg[1], rg[2], st)

CheckIn == \E id \in BookingIds : check_in(id)

CheckOut == \E id \in BookingIds : check_out(id)

CancelBooking == \E id \in BookingIds : cancel_booking(id)

\* the operator changes a room's status and leaves its type and rate
UpdateRoomDetails ==
    \E r \in SampleRooms, st \in RoomStatuses :
        update_room_details(r, rooms[r].type, rooms[r].price, st)

Next ==
    \/ AddBooking
    \/ UpdateBooking
    \/ CheckIn
    \/ CheckOut
    \/ CancelBooking
    \/ UpdateRoomDetails

Spec == Init /\ [][Next]_vars

\* the five booking operations, without the manual room edit
NextLifecycle ==
    \/ AddBooking
    \/ UpdateBooking
    \/ CheckIn
    \/ CheckOut
    \/ CancelBooking

SpecLifecycle == Init /\ [][NextLifecycle]_vars

\* the form of the "Modify" tab offers the rooms of the table; the method
\* itself takes any room number
UpdateBookingAnyRoom ==
    \E id \in BookingIds, r \in RoomInputs, rg \in DateRanges,
       st \in BookingStatuses : update_booking(id, r, rg[1], rg[2], st)

NextModify ==
    \/ AddBooking
    \/ UpdateBookingAnyRoom

SpecModify == Init /\ [][NextModify]_vars

(***************************************************************************)
(* Two sessions at once.  Each Streamlit session runs main() in its own    *)
(* thread with its own HotelManager and its own connection to the same     *)
(* database file.  add_booking holds no lock and opens no transaction      *)
(* around its SELECT COUNT and its INSERT: each statement is atomic, the   *)
(* pair is not.                                                            *)
(***************************************************************************)
\* lines 170-178 in session s: the early returns, or on to the INSERT
add_booking_begin(s, customer_id, room_number, check_in_date, check_out_date) ==
    /\ s \notin DOMAIN pending
    /\ add_booking_check(room_number, check_in_date, check_out_date) = "pass"
    /\ pending' = [t \in DOMAIN pending \cup {s} |->
                      IF t = s
                      THEN [customer_id |-> customer_id, room_number |-> room_number,
                            check_in_date |-> check_in_date,
                            check_out_date |-> check_out_date]
                      ELSE pending[t]]
    /\ UNCHANGED <<rooms, customers, bookings>>

\* lines 180-187 in session s: _generate_id, INSERT, commit, return
add_booking_finish(s, booking_id) ==
    /\ s \in DOMAIN pending
    /\ bookings' = insert_booking(booking_id, pending[s].customer_id,
                                  pending[s].room_number, pending[s].check_in_date,
                                  pending[s].check_out_date)
    /\ pending' = [t \in DOMAIN pending \ {s} |-> pending[t]]
    /\ UNCHANGED <<rooms, customers>>

AddBookingBegin ==
    \E s \in Sessions, c \in CustomerIds, r \in SampleRooms, rg \in DateRanges :
        add_booking_begin(s, c, r, rg[1], rg[2])

AddBookingFinish ==
    \E s \in Sessions, id \in BookingIds : add_booking_finish(s, id)

NextConcurrent ==
    \/ AddBookingBegin
    \/ AddBookingFinish

SpecConcurrent == Init /\ [][NextConcurrent]_vars

(***************************************************************************)
(* One writer seen by readers.  check_in, check_out and update_booking     *)
(* commit after each of their UPDATE statements (update_room_status has    *)
(* its own commit), so a reader on another connection can run between two  *)
(* commits of one call.  Each commit is one action; `pending` holds the    *)
(* call in flight, with the tables it started from (before) and the tables *)
(* the whole call leaves (after).  One call is in flight at a time.        *)
(***************************************************************************)
\* no call is between two of its commits
Quiet == DOMAIN pending = {}

NoPending == [t \in {} |-> << >>]

\* lines 281-284: the test of the status, UPDATE bookings, commit
check_in_begin(s, booking_id) ==
    /\ Quiet
    /\ check_in_returns(booking_id)
    /\ bookings' = [bookings EXCEPT ![booking_id].status = "CheckedIn"]
    /\ pending' = [t \in {s} |->
                      [op |-> "check_in", pc |-> "room", booking_id |-> booking_id,
                       room_number |-> bookings[booking_id].room_number,
                       before |-> Store, after |-> check_in_store(booking_id)]]
    /\ UNCHANGED <<rooms, customers>>

\* lines 285-286: update_room_status(booking['room_number'], 'Occupied')
check_in_finish(s) ==
    /\ s \in DOMAIN pending
    /\ pending[s].op = "check_in"
    /\ rooms' = update_room_status(rooms, pending[s].room_number, "Occupied")
    /\ pending' = NoPending
    /\ UNCHANGED <<customers, bookings>>

\* lines 290-293: the test of the status, UPDATE bookings, commit
check_out_begin(s, booking_id) ==
    /\ Quiet
    /\ check_out_returns(booking_id)
    /\ bookings' = [bookings EXCEPT ![booking_id].status = "CheckedOut"]
    /\ pending' = [t \in {s} |->
                      [op |-> "check_out", pc |-> "room", booking_id |-> booking_id,
                       room_number |-> bookings[booking_id].room_number,
                       before |-> Store, after |-> check_out_store(booking_id)]]
    /\ UNCHANGED <<rooms, customers>>

\* lines 294-295: update_room_status(booking['room_number'], 'Available')
check_out_finish(s) ==
    /\ s \in DOMAIN pending
    /\ pending[s].op = "check_out"
    /\ rooms' = update_room_status(rooms, pending[s].room_number, "Available")
    /\ pending' = NoPending
    /\ UNCHANGED <<customers, bookings>>

\* lines 222-240: the early returns, then the release of the old room
update_booking_begin(s, booking_id, new_room_number, new_check_in, new_check_out, new_status) ==
    /\ Quiet
    /\ update_booking_check(booking_id, new_room_number, new_check_in,
                            new_check_out) = "pass"
    /\ rooms' = release_old_room(rooms, bookings[booking_id].room_number,
                                 bookings[booking_id].status)
    /\ pending' = [t \in {s} |->
                      [op |-> "update_booking", pc |-> "claim",
                       booking_id |-> booking_id,
                       room_number |-> new_room_number,
                       old_room_number |-> bookings[booking_id].room_number,
                       old_status |-> bookings[booking_id].status,
                       check_in_date |-> new_check_in,
                       check_out_date |-> new_check_out,
                       status |-> new_status,
                       before |-> Store,
                       after |-> update_booking_store(booking_id, new_room_number,
                                     new_check_in, new_check_out, new_status)]]
    /\ UNCHANGED <<customers, bookings>>

\* lines 242-248: the claim of the new room
update_booking_claim(s) ==
    /\ s \in DOMAIN pending
    /\ pending[s].op = "update_booking" /\ pending[s].pc = "claim"
    /\ rooms' = claim_new_room(rooms, pending[s].room_number, pending[s].status)
    /\ pending' = [pending EXCEPT ![s].pc = "write"]
    /\ UNCHANGED <<customers, bookings>>

\* lines 250-258: UPDATE bookings SET ... WHERE booking_id = ?, commit, return
update_booking_write(s) ==
    /\ s \in DOMAIN pending
    /\ pending[s].op = "update_booking" /\ pending[s].pc = "write"
    /\ bookings' = [bookings EXCEPT ![pending[s].booking_id] =
                       updated_booking(bookings[pending[s].booking_id],
                                       pending[s].room_number,
                                       pending[s].check_in_date,
                                       pending[s].check_out_date,
                                       pending[s].status)]
    /\ pending' = NoPending
    /\ UNCHANGED <<rooms, customers>>

CheckInBegin == \E s \in Sessions, id \in BookingIds : check_in_begin(s, id)

CheckInFinish == \E s \in Sessions : check_in_finish(s)

CheckOutBegin == \E s \in Sessions, id \in BookingIds : check_out_begin(s, id)

CheckOutFinish == \E s \in Sessions : check_out_finish(s)

UpdateBookingBegin ==
    \E s \in Sessions, id \in BookingIds, r \in SampleRooms, rg \in DateRanges,
       st \in BookingStatuses : update_booking_begin(s, id, r, rg[1], rg[2], st)

UpdateBookingClaim == \E s \in Sessions : update_booking_claim(s)

UpdateBookingWrite == \E s \in Sessions : update_booking_write(s)

\* add_booking and cancel_booking have one commit each
AddBookingQuiet == Quiet /\ AddBooking

CancelBookingQuiet == Quiet /\ CancelBooking

NextSteps ==
    \/ AddBookingQuiet
    \/ CancelBookingQuiet
    \/ CheckInBegin
    \/ CheckInFinish
    \/ CheckOutBegin
    \/ CheckOutFinish
    \/ UpdateBookingBegin
    \/ UpdateBookingClaim
    \/ UpdateBookingWrite

SpecSteps == Init /\ [][NextSteps]_vars

(***************************************************************************)
(* Rates that change.  The operator edits the rate of a room between the   *)
(* booking operations, each of which runs from start to end.               *)
(***************************************************************************)
\* the operator changes a room's rate and leaves its type and status
UpdateRoomRate ==
    \E r \in SampleRooms, p \in Prices :
        update_room_details(r, rooms[r].type, p, rooms[r].status)

\* the modify form submitted with the status it shows, the booking's own
UpdateBookingOwnStatus ==
    \E id \in DOMAIN bookings, r \in SampleRooms, rg \in DateRanges :
        update_booking(id, r, rg[1], rg[2], bookings[id].status)

\* bookings that are created, checked in and modified while the rates change
NextRates ==
    \/ AddBooking
    \/ UpdateBookingOwnStatus
    \/ CheckIn
    \/ UpdateRoomRate

SpecRates == Init /\ [][NextRates]_vars

\* bookings that go through the dedicated transitions while the rates change
NextSnapshot ==
    \/ AddBooking
    \/ CheckIn
    \/ CheckOut
    \/ CancelBooking
    \/ UpdateRoomRate

SpecSnapshot == Init /\ [][NextSnapshot]_vars

(***************************************************************************)
(* Customers.  add_customer registers a customer under the id drawn by     *)
(* _generate_id('C'); add_booking takes the customer id it is given.       *)
(***************************************************************************)
\* the names typed into the registration form
Names == {"Ann"}

\* add_customer when _generate_id('C') returns customer_id: INSERT INTO
\* customers, commit; an id already in the table raises IntegrityError and
\* writes nothing (email and phone are carried like the name and left out)
add_customer(customer_id, name) ==
    /\ customers' = IF customer_id \in DOMAIN customers
                    THEN customers
                    ELSE [c \in DOMAIN customers \cup {customer_id} |->
                             IF c = customer_id THEN [name |-> name]
                             ELSE customers[c]]
    /\ UNCHANGED <<rooms, bookings, pending>>

AddCustomer == \E c \in CustomerIds, n \in Names : add_customer(c, n)

NextCustomers ==
    \/ AddCustomer
    \/ AddBooking
    \/ CheckIn
    \/ CheckOut
    \/ CancelBooking

SpecCustomers == Init /\ [][NextCustomers]_vars

(***************************************************************************)
(* Queries.  A caller asks a query, asks it again with the same arguments  *)
(* and nothing in between, and takes the two answers.                      *)
(***************************************************************************)
\* the rooms property: the rows of rooms, ORDER BY room_number
rooms_listing ==
    [i \in 1..Len(SortedRoomNumbers) |->
        [room_number |-> SortedRoomNumbers[i],
         type |-> rooms[SortedRoomNumbers[i]].type,
         price |-> rooms[SortedRoomNumbers[i]].price,
         status |-> rooms[SortedRoomNumbers[i]].status]]

\* the customers property: the rows of customers
customers_listing ==
    {[customer_id |-> c, name |-> customers[c].name] : c \in DOMAIN customers}

QueryOps ==
    {"is_room_available", "get_available_rooms", "get_reports",
     "rooms", "bookings", "customers"}

\* the calls of the queries, as <<name, arguments>>
Queries ==
    ({"is_room_available"}
        \X (RoomInputs \X DateRanges \X (BookingIds \cup {NoBookingId})))
    \cup ({"get_available_rooms"} \X {<<rg>> : rg \in DateRanges})
    \cup ({"get_reports"} \X {<<w>> : w \in Dates \X Dates})
    \cup ({"rooms", "bookings", "customers"} \X {<< >>})

\* what the query returns in the current state
query_returns(op, args) ==
    CASE op = "is_room_available" ->
            is_room_available(args[1], isoformat(args[2][1]),
                              isoformat(args[2][2]), args[3])
      [] op = "get_available_rooms" ->
            get_available_rooms(args[1][1], args[1][2])
      [] op = "get_reports" -> get_reports(args[1][1], args[1][2])
      [] op = "rooms" -> rooms_listing
      [] op = "bookings" -> bookings_listing
      [] op = "customers" -> customers_listing

\* a query that marks the rooms it finds bookable as Available
query_store_refreshes_rooms(op, args) ==
    IF op = "get_available_rooms"
    THEN [rooms |-> [r \in DOMAIN rooms |->
                        IF room_listed(r, args[1][1], args[1][2])
                        THEN [rooms[r] EXCEPT !.status = "Available"]
                        ELSE rooms[r]],
          bookings |-> bookings]
    ELSE Store

\* the tables a query leaves: each of the six executes SELECT statements
\* only, none an INSERT, an UPDATE or a commit
query_store(op, args) == Store

\* the first call of a query
query_call(s, op, args) ==
    /\ Quiet
    /\ pending' = [t \in {s} |->
                      [op |-> op, args |-> args,
                       results |-> <<query_returns(op, args)>>]]
    /\ rooms' = query_store(op, args).rooms
    /\ bookings' = query_store(op, args).bookings
    /\ UNCHANGED customers

\* the same call again, in the state the first call left
query_again(s) ==
    /\ s \in DOMAIN pending
    /\ Len(pending[s].results) = 1
    /\ pending' = [pending EXCEPT ![s].results =
                      Append(@, query_returns(pending[s].op, pending[s].args))]
    /\ rooms' = query_store(pending[s].op, pending[s].args).rooms
    /\ bookings' = query_store(pending[s].op, pending[s].args).bookings
    /\ UNCHANGED customers

\* the caller takes the two answers
query_done(s) ==
    /\ s \in DOMAIN pending
    /\ Len(pending[s].results) = 2
    /\ pending' = NoPending
    /\ UNCHANGED <<rooms, customers, bookings>>

QueryCall == \E q \in Queries : query_call("s1", q[1], q[2])

QueryAgain == query_again("s1")

QueryDone == query_done("s1")

AddCustomerQuiet == Quiet /\ AddCustomer

CheckInQuiet == Quiet /\ CheckIn

CheckOutQuiet == Quiet /\ CheckOut

NextQueries ==
    \/ AddCustomerQuiet
    \/ AddBookingQuiet
    \/ CheckInQuiet
    \/ CheckOutQuiet
    \/ CancelBookingQuiet
    \/ QueryCall
    \/ QueryAgain
    \/ QueryDone

SpecQueries == Init /\ [][NextQueries]_vars

(***************************************************************************)
(* Reports.  A room is let again after an early check-out, so one more     *)
(* booking than there are rooms is needed to fill a night more than once.  *)
(***************************************************************************)
ReportBookingIds == BookingIds \cup {MinBookingId + 2}

AddBookingReport ==
    \E c \in CustomerIds, r \in SampleRooms, rg \in DateRanges,
       id \in ReportBookingIds : add_booking(c, r, rg[1], rg[2], id)

CheckInReport == \E id \in ReportBookingIds : check_in(id)

CheckOutReport == \E id \in ReportBookingIds : check_out(id)

NextReports ==
    \/ AddBookingReport
    \/ CheckInReport
    \/ CheckOutReport

SpecReports == Init /\ [][NextReports]_vars

(***************************************************************************)
(* Properties.  The stored dates are read back with strptime, as the       *)
(* bookings property does, and compared as dates.                          *)
(***************************************************************************)
\* booking b is Confirmed or CheckedIn
IsActive(b) == bookings[b].status \in ActiveStatuses

\* the nights [check_in_date, check_out_date) of two bookings intersect
NightsIntersect(b1, b2) ==
    /\ strptime(bookings[b1].check_in_date) < strptime(bookings[b2].check_out_date)
    /\ strptime(bookings[b2].check_in_date) < strptime(bookings[b1].check_out_date)

\* an active booking on room r other than `ignore` has a night in [s, e)
ActiveBookingIn(r, s, e, ignore) ==
    \E b \in DOMAIN bookings :
        /\ bookings[b].room_number = r
        /\ IsActive(b)
        /\ (ignore # NoBookingId => b # ignore)
        /\ strptime(bookings[b].check_out_date) > s
        /\ strptime(bookings[b].check_in_date) < e

\* C1: no double-booking.  With one caller at a time, two distinct bookings
\* on the same room that are both Confirmed or CheckedIn never share a night.
NoDoubleBooking ==
    \A b1, b2 \in DOMAIN bookings :
        (b1 # b2 /\ bookings[b1].room_number = bookings[b2].room_number
            /\ IsActive(b1) /\ IsActive(b2))
        => ~NightsIntersect(b1, b2)

\* C1 witness: two active bookings share a room, one of them checked in
TwoActiveOnOneRoom ==
    \E b1, b2 \in DOMAIN bookings :
        /\ b1 # b2
        /\ bookings[b1].room_number = bookings[b2].room_number
        /\ bookings[b1].status = "CheckedIn"
        /\ bookings[b2].status = "Confirmed"

\* C3: is_room_available is False exactly when an active booking on the room,
\* other than the ignored one, has check-out after s and check-in before e;
\* a booking that ends on s or starts on e does not count.
IsRoomAvailableContract ==
    \A r \in RoomInputs, s \in Dates, e \in Dates,
       ignore \in BookingIds \cup {NoBookingId} :
        is_room_available(r, isoformat(s), isoformat(e), ignore)
            <=> ~ActiveBookingIn(r, s, e, ignore)

\* C3 witness: a room is refused for the nights of an active booking, free
\* when that booking is ignored, and free for the range that starts on its
\* check-out date
AdjacentRangeAvailable ==
    \E b \in DOMAIN bookings, e \in Dates :
        LET r == bookings[b].room_number
            s == strptime(bookings[b].check_out_date)
        IN  /\ IsActive(b)
            /\ s < e
            /\ ~is_room_available(r, bookings[b].check_in_date,
                                  bookings[b].check_out_date, NoBookingId)
            /\ is_room_available(r, bookings[b].check_in_date,
                                 bookings[b].check_out_date, b)
            /\ is_room_available(r, isoformat(s), isoformat(e), NoBookingId)

\* C2: two add_booking calls that interleave never both succeed on
\* overlapping ranges of one room: no interleaving of their availability
\* checks and INSERTs reaches two active bookings on one room sharing a night.
ConcurrentAddsNeverDoubleBook ==
    \A b1 \in DOMAIN bookings :
        \A b2 \in DOMAIN bookings \ {b1} :
            (bookings[b1].room_number = bookings[b2].room_number
                /\ IsActive(b1) /\ IsActive(b2))
            => ~NightsIntersect(b1, b2)

\* C4: add_booking succeeds exactly when start < end, the room exists and no
\* active booking on the room has a night in [start, end).
AddBookingSucceedsIffFree ==
    \A r \in RoomInputs, ci \in Dates, co \in Dates, id \in BookingIds :
        add_booking_returns(r, ci, co, id).ok
            <=> (ci < co /\ r \in DOMAIN rooms
                    /\ ~ActiveBookingIn(r, ci, co, NoBookingId))

\* add_booking with the draw of _generate_id taken into account: it succeeds
\* exactly when the range is well formed, the room exists, the room is free
\* and the id drawn is not yet in the table
AddBookingSucceedsIffFreeAndNewId ==
    \A r \in RoomInputs, ci \in Dates, co \in Dates, id \in BookingIds :
        add_booking_returns(r, ci, co, id).ok
            <=> (ci < co /\ r \in DOMAIN rooms
                    /\ ~ActiveBookingIn(r, ci, co, NoBookingId)
                    /\ id \notin DOMAIN bookings)

\* a booking on room r is CheckedIn
HasCheckedIn(r) ==
    \E b \in DOMAIN bookings :
        bookings[b].room_number = r /\ bookings[b].status = "CheckedIn"

\* C5: under the five booking operations a room that is not in Maintenance is
\* Occupied if a booking on it is CheckedIn and Available otherwise.
RoomStatusMatchesBookings ==
    \A r \in DOMAIN rooms :
        rooms[r].status # "Maintenance"
            => rooms[r].status = (IF HasCheckedIn(r) THEN "Occupied" ELSE "Available")

\* C6: no step of add_booking, update_booking, check_in, check_out or
\* cancel_booking changes the status of a room that is in Maintenance.
MaintenanceNeverCleared ==
    [][NextLifecycle =>
          \A r \in DOMAIN rooms :
              rooms[r].status = "Maintenance" => rooms'[r].status = "Maintenance"]_vars

\* booking id exists with status st
HasStatus(id, st) == id \in DOMAIN bookings /\ bookings[id].status = st

\* C7: check_in returns True exactly for a Confirmed booking and makes it
\* CheckedIn; check_out returns True exactly for a CheckedIn booking and makes
\* it CheckedOut; cancel_booking returns True exactly for a Confirmed booking
\* and makes it Cancelled; for a missing booking or any other status they
\* return False.
TransitionsGuarded ==
    \A id \in BookingIds :
        /\ check_in_returns(id) <=> HasStatus(id, "Confirmed")
        /\ HasStatus(id, "Confirmed")
              => check_in_store(id).bookings[id].status = "CheckedIn"
        /\ check_out_returns(id) <=> HasStatus(id, "CheckedIn")
        /\ HasStatus(id, "CheckedIn")
              => check_out_store(id).bookings[id].status = "CheckedOut"
        /\ cancel_booking_returns(id) <=> HasStatus(id, "Confirmed")
        /\ HasStatus(id, "Confirmed")
              => cancel_booking_store(id).bookings[id].status = "Cancelled"

\* C7 witness: check_in is refused on a Cancelled booking, cancel_booking on a
\* CheckedIn one, and check_out of the CheckedIn one is accepted
RefusedTransitions ==
    \E b1, b2 \in DOMAIN bookings :
        /\ HasStatus(b1, "Cancelled") /\ ~check_in_returns(b1)
        /\ ~check_out_returns(b1)
        /\ HasStatus(b2, "CheckedIn") /\ ~cancel_booking_returns(b2)
        /\ check_out_returns(b2)

\* C8: once a booking is CheckedOut or Cancelled, no step changes its status.
TerminalStatesFinal ==
    [][\A b \in DOMAIN bookings :
          bookings[b].status \in {"CheckedOut", "Cancelled"}
              => (b \in DOMAIN bookings' /\ bookings'[b].status = bookings[b].status)]_vars

\* C8 as amended: once a booking is CheckedOut or Cancelled, no check_in,
\* check_out, cancel_booking or add_booking call changes its status (only
\* update_booking can).
TerminalUnderDedicatedTransitions ==
    \A b \in DOMAIN bookings :
        bookings[b].status \in {"CheckedOut", "Cancelled"}
            => /\ \A id \in BookingIds :
                     /\ check_in_store(id).bookings[b].status = bookings[b].status
                     /\ check_out_store(id).bookings[b].status = bookings[b].status
                     /\ cancel_booking_store(id).bookings[b].status = bookings[b].status
               /\ \A c \in CustomerIds, r \in RoomInputs, rg \in DateRanges,
                     id \in BookingIds :
                     add_booking_store(c, r, rg[1], rg[2], id).bookings[b].status
                         = bookings[b].status

\* C8 witness: a CheckedOut booking that every dedicated transition refuses
\* and that update_booking would set back to Confirmed
TerminalBookingReopenable ==
    \E b \in DOMAIN bookings :
        /\ HasStatus(b, "CheckedOut")
        /\ ~check_in_returns(b) /\ ~check_out_returns(b) /\ ~cancel_booking_returns(b)
        /\ update_booking_store(b, bookings[b].room_number,
                                strptime(bookings[b].check_in_date),
                                strptime(bookings[b].check_out_date),
                                "Confirmed").bookings[b].status = "Confirmed"

\* C9: update_booking of an existing booking to its own room, dates and
\* status succeeds, whatever the status.
NoOpModifySucceeds ==
    \A b \in DOMAIN bookings :
        update_booking_returns(b, bookings[b].room_number,
                               strptime(bookings[b].check_in_date),
                               strptime(bookings[b].check_out_date)).ok

\* the no-op update_booking of a Confirmed or CheckedIn booking succeeds
NoOpModifyOfActiveSucceeds ==
    \A b \in DOMAIN bookings :
        IsActive(b)
            => update_booking_returns(b, bookings[b].room_number,
                                      strptime(bookings[b].check_in_date),
                                      strptime(bookings[b].check_out_date)).ok

\* C10: a call that returns failure leaves the bookings table and every
\* room's type, price and status as they were.
FailedCallsMutateNothing ==
    /\ \A c \in CustomerIds, r \in RoomInputs, ci \in Dates, co \in Dates,
          id \in BookingIds :
          ~add_booking_returns(r, ci, co, id).ok
              => add_booking_store(c, r, ci, co, id) = Store
    /\ \A id \in BookingIds, r \in RoomInputs, ci \in Dates, co \in Dates :
          ~update_booking_returns(id, r, ci, co).ok
              => \A st \in BookingStatuses :
                    update_booking_store(id, r, ci, co, st) = Store
    /\ \A id \in BookingIds :
          /\ ~check_in_returns(id) => check_in_store(id) = Store
          /\ ~check_out_returns(id) => check_out_store(id) = Store
          /\ ~cancel_booking_returns(id) => cancel_booking_store(id) = Store

\* C10 witness: a CheckedIn booking whose move onto the nights of another
\* active booking is refused, as are its check_in and its cancel_booking
RefusedCallsOnCheckedIn ==
    \E b1, b2 \in DOMAIN bookings :
        /\ b1 # b2
        /\ HasStatus(b1, "CheckedIn") /\ IsActive(b2)
        /\ ~update_booking_returns(b1, bookings[b2].room_number,
                                   strptime(bookings[b2].check_in_date),
                                   strptime(bookings[b2].check_out_date)).ok
        /\ ~check_in_returns(b1) /\ ~cancel_booking_returns(b1)

\* C11: a reader that runs between two commits of a check_in, check_out or
\* update_booking sees the tables either as they were before the call or as
\* the whole call leaves them, never the booking updated without the room or
\* the room updated without the booking.
ReadersSeeWholeCalls ==
    \A s \in DOMAIN pending :
        Store = pending[s].before \/ Store = pending[s].after

\* C12: while update_booking rewrites a CheckedIn booking on its own room with
\* new status CheckedIn, the room (Occupied when the call starts) is Occupied
\* in every committed state of the call.
NoFlickerOnSameRoomModify ==
    \A s \in DOMAIN pending :
        (/\ pending[s].op = "update_booking"
         /\ pending[s].old_status = "CheckedIn"
         /\ pending[s].status = "CheckedIn"
         /\ pending[s].old_room_number = pending[s].room_number
         /\ pending[s].before.rooms[pending[s].room_number].status = "Occupied")
        => rooms[pending[s].room_number].status = "Occupied"

\* C13: a successful update_booking that moves a CheckedIn booking from its
\* room A to another room B of the store with new status CheckedIn leaves B
\* Occupied and A Available.
MoveOfCheckedInSwapsRooms ==
    \A b \in DOMAIN bookings :
        \A roomB \in DOMAIN rooms, rg \in DateRanges :
            LET roomA == bookings[b].room_number
            IN  (/\ bookings[b].status = "CheckedIn"
                 /\ roomB # roomA
                 /\ update_booking_returns(b, roomB, rg[1], rg[2]).ok)
                => LET after == update_booking_store(b, roomB, rg[1], rg[2],
                                                     "CheckedIn")
                   IN  /\ after.rooms[roomB].status = "Occupied"
                       /\ after.rooms[roomA].status = "Available"
                       /\ after.bookings[b].room_number = roomB
                       /\ after.bookings[b].status = "CheckedIn"

\* C13 witness: a CheckedIn booking on an Occupied room whose move to the
\* other room, for its own nights, is accepted
CheckedInBookingCanMove ==
    \E b \in DOMAIN bookings, roomB \in DOMAIN rooms :
        /\ bookings[b].status = "CheckedIn"
        /\ roomB # bookings[b].room_number
        /\ rooms[bookings[b].room_number].status = "Occupied"
        /\ rooms[roomB].status = "Available"
        /\ update_booking_returns(b, roomB, strptime(bookings[b].check_in_date),
                                  strptime(bookings[b].check_out_date)).ok

\* the rows of the bookings table that are Confirmed or CheckedIn
active_bookings == [b \in {a \in DOMAIN bookings : IsActive(a)} |-> bookings[b]]

\* is_room_available gives the answer it would give if the Cancelled and
\* CheckedOut rows were not in the table, and the nights of a Cancelled or
\* CheckedOut booking that no active booking shares are available
HistoricalRowsNotCounted ==
    /\ \A r \in RoomInputs, s \in Dates, e \in Dates,
          ignore \in BookingIds \cup {NoBookingId} :
          is_room_available(r, isoformat(s), isoformat(e), ignore)
              <=> available_in(active_bookings, r, isoformat(s), isoformat(e), ignore)
    /\ \A b \in DOMAIN bookings :
          (/\ ~IsActive(b)
           /\ ~ActiveBookingIn(bookings[b].room_number,
                               strptime(bookings[b].check_in_date),
                               strptime(bookings[b].check_out_date), b))
          => is_room_available(bookings[b].room_number, bookings[b].check_in_date,
                               bookings[b].check_out_date, NoBookingId)

\* C14: Cancelled and CheckedOut bookings never make is_room_available
\* False; and when booking b is the only active booking on its nights of its
\* room, then right after a successful check_out(b) or cancel_booking(b) the
\* room is available for those nights and add_booking for them succeeds.
HistoricalBookingsDoNotBlock ==
    [][/\ \A r \in RoomInputs, s \in Dates, e \in Dates :
             is_room_available(r, isoformat(s), isoformat(e), NoBookingId)
                 <=> available_in(active_bookings, r, isoformat(s), isoformat(e),
                                  NoBookingId)
       /\ \A b \in DOMAIN bookings, r \in RoomInputs, s \in Dates, e \in Dates :
             (/\ r = bookings[b].room_number
              /\ s = strptime(bookings[b].check_in_date)
              /\ e = strptime(bookings[b].check_out_date)
              /\ ~ActiveBookingIn(r, s, e, b)
              /\ \/ check_out_returns(b) /\ check_out(b)
                 \/ cancel_booking_returns(b) /\ cancel_booking(b))
             => /\ is_room_available(r, isoformat(s), isoformat(e), NoBookingId)'
                /\ \A id \in BookingIds : add_booking_returns(r, s, e, id).ok']_vars

\* C15: right after a successful add_booking(c, R, s, e) is_room_available
\* (R, s, e) is False with no booking ignored and True with the new booking
\* ignored; and as long as a booking is Confirmed or CheckedIn its room is not
\* available for its nights.
NewBookingTakesItsRange ==
    /\ \A c \in CustomerIds, r \in RoomInputs, rg \in DateRanges, id \in BookingIds :
          add_booking_returns(r, rg[1], rg[2], id).ok
              => LET bks == add_booking_store(c, r, rg[1], rg[2], id).bookings
                 IN  /\ ~available_in(bks, r, isoformat(rg[1]), isoformat(rg[2]),
                                      NoBookingId)
                     /\ available_in(bks, r, isoformat(rg[1]), isoformat(rg[2]), id)
    /\ \A b \in DOMAIN bookings :
          IsActive(b)
              => ~is_room_available(bookings[b].room_number, bookings[b].check_in_date,
                                    bookings[b].check_out_date, NoBookingId)

\* C15 witness: a booking made by add_booking and since checked in still
\* takes its nights, which are free when it is ignored, while another
\* add_booking is accepted on the room for other nights
BookedRangeStaysTaken ==
    \E b \in DOMAIN bookings, rg \in DateRanges, id \in BookingIds :
        /\ HasStatus(b, "CheckedIn")
        /\ ~is_room_available(bookings[b].room_number, bookings[b].check_in_date,
                              bookings[b].check_out_date, NoBookingId)
        /\ is_room_available(bookings[b].room_number, bookings[b].check_in_date,
                             bookings[b].check_out_date, b)
        /\ add_booking_returns(bookings[b].room_number, rg[1], rg[2], id).ok

\* the status column of a rooms table
StatusOf(rms) == [r \in DOMAIN rms |-> rms[r].status]

\* C16: a successful check_in sets the booking's room to Occupied, a
\* successful check_out sets it to Available, and add_booking and
\* cancel_booking, successful or not, leave the status of every room as it was.
LifecycleRoomEffects ==
    /\ \A id \in BookingIds :
          /\ check_in_returns(id)
                => check_in_store(id).rooms[bookings[id].room_number].status
                       = "Occupied"
          /\ check_out_returns(id)
                => check_out_store(id).rooms[bookings[id].room_number].status
                       = "Available"
          /\ StatusOf(cancel_booking_store(id).rooms) = StatusOf(rooms)
    /\ \A c \in CustomerIds, r \in RoomInputs, rg \in DateRanges, id \in BookingIds :
          StatusOf(add_booking_store(c, r, rg[1], rg[2], id).rooms) = StatusOf(rooms)

\* C16 witness: a CheckedIn booking on an Occupied room that check_out would
\* free, next to a Confirmed booking that cancel_booking and check_in accept
RoomEffectsDue ==
    \E b1, b2 \in DOMAIN bookings :
        /\ HasStatus(b1, "CheckedIn")
        /\ rooms[bookings[b1].room_number].status = "Occupied"
        /\ check_out_store(b1).rooms[bookings[b1].room_number].status = "Available"
        /\ HasStatus(b2, "Confirmed")
        /\ cancel_booking_returns(b2) /\ check_in_returns(b2)
        /\ rooms[bookings[b2].room_number].status = "Available"

\* C17: add_booking succeeds only if the room and the customer it names are
\* in the store: no booking it creates names a room that is not in the rooms
\* table or a customer id that is not in the customers table (no row of
\* either table is ever deleted).
BookingNeedsRoomAndCustomer ==
    \A b \in DOMAIN bookings :
        /\ bookings[b].room_number \in DOMAIN rooms
        /\ bookings[b].customer_id \in DOMAIN customers

\* the elements of a list
Elements(list) == {list[i] : i \in 1 .. Len(list)}

\* C18: get_available_rooms(s, e) returns exactly the rooms that are not in
\* Maintenance and for which is_room_available(room, s, e) is True, each
\* once; a room in Maintenance is never returned and an Occupied room with no
\* active booking on a night of [s, e) is returned.
AvailableRoomsContract ==
    \A s \in Dates, e \in Dates :
        LET listed == get_available_rooms(s, e)
        IN  /\ Elements(listed)
                  = {r \in DOMAIN rooms :
                        /\ rooms[r].status # "Maintenance"
                        /\ is_room_available(r, isoformat(s), isoformat(e),
                                             NoBookingId)}
            /\ Cardinality(Elements(listed)) = Len(listed)
            /\ \A r \in DOMAIN rooms :
                  /\ rooms[r].status = "Maintenance" => r \notin Elements(listed)
                  /\ (rooms[r].status = "Occupied"
                         /\ ~ActiveBookingIn(r, s, e, NoBookingId))
                     => r \in Elements(listed)

\* C18 witness: a room in Maintenance without any booking is left out while
\* an Occupied room is returned for a range after its CheckedIn booking
MaintenanceSkippedOccupiedListed ==
    \E r1, r2 \in DOMAIN rooms, s \in Dates, e \in Dates :
        /\ s < e
        /\ rooms[r1].status = "Maintenance"
        /\ \A b \in DOMAIN bookings : bookings[b].room_number # r1
        /\ rooms[r2].status = "Occupied" /\ HasCheckedIn(r2)
        /\ get_available_rooms(s, e) = <<r2>>

\* C19: add_booking stores the room's rate of the moment and the status
\* Confirmed; afterwards no step of update_room_details, check_in, check_out,
\* cancel_booking or add_booking changes price_per_night of an existing
\* booking.
PriceSnapshotNotRetroactive ==
    [][/\ \A b \in DOMAIN bookings' \ DOMAIN bookings :
             /\ bookings'[b].price_per_night = rooms[bookings'[b].room_number].price
             /\ bookings'[b].status = "Confirmed"
       /\ \A b \in DOMAIN bookings :
             /\ b \in DOMAIN bookings'
             /\ bookings'[b].price_per_night = bookings[b].price_per_night]_vars

\* C19 witness: a booking that has been checked in keeps the rate of its
\* creation after the rate of its room was changed
BookingKeepsOldRate ==
    \E b \in DOMAIN bookings :
        /\ HasStatus(b, "CheckedIn")
        /\ bookings[b].price_per_night = 100
        /\ rooms[bookings[b].room_number].price = 150

\* C20: every successful update_booking writes the new room, dates and
\* status together with price_per_night = the rate the new room has at the
\* time of the call -- also when room, dates and status are the booking's own
\* and the rate has changed since -- and leaves every other booking as it was.
ModifyResnapshotsPrice ==
    \A b \in DOMAIN bookings :
        \A r \in SampleRooms, rg \in DateRanges, st \in BookingStatuses :
            update_booking_returns(b, r, rg[1], rg[2]).ok
                => LET after == update_booking_store(b, r, rg[1], rg[2], st).bookings
                   IN  /\ after[b] = [customer_id |-> bookings[b].customer_id,
                                      room_number |-> r,
                                      check_in_date |-> isoformat(rg[1]),
                                      check_out_date |-> isoformat(rg[2]),
                                      status |-> st,
                                      price_per_night |-> rooms[r].price]
                       /\ \A other \in DOMAIN bookings \ {b} :
                             after[other] = bookings[other]

\* C20 witness: an active booking made at one rate on a room whose rate has
\* changed; its no-op update_booking is accepted and stores the new rate
NoOpModifyTakesNewRate ==
    \E b \in DOMAIN bookings :
        LET r == bookings[b].room_number
            s == strptime(bookings[b].check_in_date)
            e == strptime(bookings[b].check_out_date)
        IN  /\ IsActive(b)
            /\ bookings[b].price_per_night # rooms[r].price
            /\ update_booking_returns(b, r, s, e).ok
            /\ update_booking_store(b, r, s, e, bookings[b].status)
                   .bookings[b].price_per_night = rooms[r].price

\* the Cancelled and CheckedOut statuses
TerminalStatuses == {"CheckedOut", "Cancelled"}

\* row `new` is row `old` with another status
OnlyStatusDiffers(old, new) ==
    /\ new.customer_id = old.customer_id
    /\ new.room_number = old.room_number
    /\ new.check_in_date = old.check_in_date
    /\ new.check_out_date = old.check_out_date
    /\ new.price_per_night = old.price_per_night

\* C21: no step removes a booking id from the store or changes the customer
\* of a booking; check_in, check_out and cancel_booking leave every row in
\* place and change nothing of it but the status; and the bookings listing
\* holds every row, Cancelled and CheckedOut ones included, with its
\* customer, its room and the dates that were stored.
BookingsNeverDeleted ==
    [][/\ DOMAIN bookings \subseteq DOMAIN bookings'
       /\ \A b \in DOMAIN bookings :
             bookings'[b].customer_id = bookings[b].customer_id
       /\ \A id \in BookingIds, b \in DOMAIN bookings :
             /\ b \in DOMAIN check_in_store(id).bookings
             /\ OnlyStatusDiffers(bookings[b], check_in_store(id).bookings[b])
             /\ b \in DOMAIN check_out_store(id).bookings
             /\ OnlyStatusDiffers(bookings[b], check_out_store(id).bookings[b])
             /\ b \in DOMAIN cancel_booking_store(id).bookings
             /\ OnlyStatusDiffers(bookings[b], cancel_booking_store(id).bookings[b])
       /\ DOMAIN bookings_listing = DOMAIN bookings
       /\ \A b \in DOMAIN bookings :
             /\ bookings_listing[b].customer_id = bookings[b].customer_id
             /\ bookings_listing[b].room_number = bookings[b].room_number
             /\ bookings_listing[b].status = bookings[b].status
             /\ isoformat(bookings_listing[b].check_in_date) = bookings[b].check_in_date
             /\ isoformat(bookings_listing[b].check_out_date) = bookings[b].check_out_date]_vars

\* C21 witness: a Cancelled booking and a CheckedOut booking are both in the
\* store and in the listing
TerminalBookingsKept ==
    \E b1, b2 \in DOMAIN bookings_listing :
        /\ bookings_listing[b1].status = "Cancelled"
        /\ bookings_listing[b2].status = "CheckedOut"

\* C22: for every window S < E, get_reports counts as cancelled exactly the
\* Cancelled bookings whose check-in date d has S <= d <= E, both ends
\* included.
CancelledCountInclusive ==
    \A S \in Dates, E \in Dates :
        S < E =>
            get_reports(S, E).cancelled_bookings
                = Cardinality({b \in DOMAIN bookings :
                                 /\ bookings[b].status = "Cancelled"
                                 /\ S <= strptime(bookings[b].check_in_date)
                                 /\ strptime(bookings[b].check_in_date) <= E})

\* what the code counts: the Cancelled bookings with S <= d < E
CancelledCountHalfOpen ==
    \A S \in Dates, E \in Dates :
        S < E =>
            get_reports(S, E).cancelled_bookings
                = Cardinality({b \in DOMAIN bookings :
                                 /\ bookings[b].status = "Cancelled"
                                 /\ S <= strptime(bookings[b].check_in_date)
                                 /\ strptime(bookings[b].check_in_date) < E})

UpdateAcceptsAnyStatus ==
    \A id \in DOMAIN bookings, r \in RoomInputs, rg \in DateRanges :
        (rg[1] < rg[2] /\ ~ActiveBookingIn(r, rg[1], rg[2], id))
            => /\ update_booking_returns(id, r, rg[1], rg[2]).ok
               /\ \A st \in BookingStatuses :
                     update_booking_store(id, r, rg[1], rg[2], st).bookings[id].status = st

\* C24 witness: with update_booking the only call that writes a status after
\* add_booking, one booking is CheckedOut and another is Cancelled
StatusSetByModify ==
    \E b1, b2 \in DOMAIN bookings :
        /\ bookings[b1].status = "CheckedOut"
        /\ bookings[b2].status = "Cancelled"

\* C25: add_booking tests its preconditions in one order.  A range with
\* check_in >= check_out is reported as such whatever the room, missing or
\* booked; with a valid range a missing room is reported as not found,
\* whatever is booked under its number; the room is reported as booked
\* exactly when the range is valid, the room exists and an active booking of
\* it has a night in the range.
AddBookingCheckOrder ==
    \A r \in RoomInputs, ci \in Dates, co \in Dates, id \in BookingIds :
        LET ret == add_booking_returns(r, ci, co, id)
        IN  /\ ci >= co
                => ret = [ok |-> FALSE,
                          msg |-> "Check-out date must be after check-in date."]
            /\ (ci < co /\ r \notin DOMAIN rooms)
                => ret = [ok |-> FALSE, msg |-> "Room not found."]
            /\ ret.msg = "Room is already booked or occupied during this period."
                <=> /\ ci < co
                    /\ r \in DOMAIN rooms
                    /\ ActiveBookingIn(r, ci, co, NoBookingId)

\* C25 witness: calls that fail two tests at once get the message of the
\* first: an invalid range on nights that are taken, and a valid range on a
\* missing room whose number has the nights taken
AddBookingFailsTwoTests ==
    /\ \E r \in SampleRooms, ci \in Dates, co \in Dates :
          /\ ci >= co
          /\ ~is_room_available(r, isoformat(ci), isoformat(co), NoBookingId)
          /\ add_booking_returns(r, ci, co, MinBookingId).msg
                = "Check-out date must be after check-in date."
    /\ \E ci \in Dates, co \in Dates :
          /\ ci < co
          /\ ~is_room_available(MissingRoom, isoformat(ci), isoformat(co), NoBookingId)
          /\ add_booking_returns(MissingRoom, ci, co, MinBookingId).msg
                = "Room not found."

\* C26: update_booking tests its preconditions in one order.  A missing
\* booking is reported whatever the dates and the room; for a booking of the
\* store a range with new_check_in >= new_check_out is reported whatever the
\* room; the room is reported as not available exactly when the booking
\* exists, the range is valid and another active booking of the new room has
\* a night in it.
UpdateBookingCheckOrder ==
    \A id \in BookingIds, r \in RoomInputs, ci \in Dates, co \in Dates :
        LET ret == update_booking_returns(id, r, ci, co)
        IN  /\ id \notin DOMAIN bookings
                => ret = [ok |-> FALSE, msg |-> "Booking not found."]
            /\ (id \in DOMAIN bookings /\ ci >= co)
                => ret = [ok |-> FALSE,
                          msg |-> "Check-out date must be after check-in date."]
            /\ ret.msg = "Room is not available for the new dates/room."
                <=> /\ id \in DOMAIN bookings
                    /\ ci < co
                    /\ ActiveBookingIn(r, ci, co, id)

\* C26 witness: calls that fail two tests at once get the message of the
\* first: a missing booking with an invalid range, and a missing booking
\* with a valid range on nights that a booking of the store has taken
UpdateBookingFailsTwoTests ==
    /\ \E id \in BookingIds \ DOMAIN bookings, r \in SampleRooms :
          update_booking_returns(id, r, FirstDay + 1, FirstDay + 1).msg
              = "Booking not found."
    /\ \E id \in BookingIds \ DOMAIN bookings, r \in SampleRooms,
          ci \in Dates, co \in Dates :
          /\ ci < co
          /\ ~is_room_available(r, isoformat(ci), isoformat(co), id)
          /\ update_booking_returns(id, r, ci, co).msg = "Booking not found."

\* C27: in every state reached by add_booking and update_booking calls,
\* every row of bookings has its check_in_date strictly before its
\* check_out_date, as dates and as the stored text.
StoredDatesOrdered ==
    \A b \in DOMAIN bookings :
        /\ strptime(bookings[b].check_in_date) < strptime(bookings[b].check_out_date)
        /\ TextLess(bookings[b].check_in_date, bookings[b].check_out_date)

\* C27 witness: update_booking has rewritten a booking (its status is one
\* add_booking never writes) and its range runs from January into February
ModifiedRangeOrdered ==
    \E b \in DOMAIN bookings :
        /\ bookings[b].status # "Confirmed"
        /\ strptime(bookings[b].check_in_date) <= DaysInJanuary
        /\ strptime(bookings[b].check_out_date) > DaysInJanuary

\* C28: in every state reached by add_booking and update_booking calls, the
\* room_number of every row of bookings is the number of a row of rooms, and
\* its price_per_night is not the fallback 0 of get_room_price.
BookingsReferenceRooms ==
    \A b \in DOMAIN bookings :
        /\ bookings[b].room_number \in DOMAIN rooms
        /\ bookings[b].price_per_night # NoRoomPrice

\* what add_booking alone keeps: a new row names a room of the table
NewBookingsReferenceRooms ==
    \A c \in CustomerIds, r \in RoomInputs, rg \in DateRanges, id \in BookingIds :
        (id \notin DOMAIN bookings /\ add_booking_returns(r, rg[1], rg[2], id).ok)
            => /\ r \in DOMAIN rooms
               /\ add_booking_store(c, r, rg[1], rg[2], id).bookings[id].price_per_night
                     = rooms[r].price

\* C29: no room has two distinct bookings with status CheckedIn.
OneCheckedInPerRoom ==
    \A b1, b2 \in DOMAIN bookings :
        (/\ bookings[b1].status = "CheckedIn"
         /\ bookings[b2].status = "CheckedIn"
         /\ bookings[b1].room_number = bookings[b2].room_number)
            => b1 = b2

\* what check_in tests: the status of the booking itself, whatever the other
\* bookings of its room are
CheckInIgnoresRoomOccupancy ==
    \A id \in DOMAIN bookings :
        check_in_returns(id) <=> bookings[id].status = "Confirmed"

\* C30: for every window S < E the occupied nights get_reports counts are at
\* most total_nights = (number of rooms) x (E - S), so that the occupancy
\* rate lies between 0 and 100; and the rate is 0 when total_nights is 0.
OccupancyWithinCapacity ==
    \A S \in Dates, E \in Dates :
        LET report == get_reports(S, E)
        IN  /\ S < E =>
                /\ report.occupied_nights <= report.total_nights
                /\ report.occupancy_rate[1] >= 0
                /\ report.occupancy_rate[1] <= 100 * report.occupancy_rate[2]
            /\ report.total_nights = 0 => report.occupancy_rate[1] = 0

\* the part of C30 that holds: total_nights is rooms x days, the rate is never
\* negative and is 0 for an empty window
RateOfEmptyWindowIsZero ==
    \A S \in Dates, E \in Dates :
        LET report == get_reports(S, E)
        IN  /\ report.total_nights = Cardinality(DOMAIN rooms) * (E - S)
            /\ report.occupancy_rate[1] >= 0
            /\ report.total_nights <= 0 => report.occupancy_rate[1] = 0

====
